---- MODULE Spec2Model ----
(***************************************************************************)
(* Model of the recipe question-answering assistant.                       *)
(*                                                                         *)
(* Part 1: RecipeRetriever (src/src/retrieval.py): loading the corpus,     *)
(* building the TF-IDF index and retrieve_recipes(query, k).               *)
(* Part 2: a caller that repeats calls of the retriever.                   *)
(* Part 3: data preparation (src/src/prepare_data.py).                     *)
(* Part 4: RecipeRAG.answer_query (src/src/rag_pipeline.py) and the        *)
(* conversational assistant (src/src/conversation_handler.py).             *)
(* Part 5: the evaluation metrics (src/src/evaluate_retrieval.py).         *)
(* Each part has its own variables, initial condition, next-state relation *)
(* and specification; the variables of the other parts stay idle.          *)
(*                                                                         *)
(* Conventions of the model:                                               *)
(*  - a text is a sequence of word tokens (what the vectorizer's token     *)
(*    pattern extracts from the string);                                   *)
(*  - a term is a sequence of one token (unigram) or two tokens (bigram);  *)
(*  - a vector is a function from the vocabulary's terms to integers;      *)
(*  - real numbers are fixed point: idf in 1/100, a normalized component   *)
(*    in 1/1000, a cosine similarity in 1/1000000;                         *)
(*  - store indexes are 1-based (Python's index i is i + 1 here).          *)
(***************************************************************************)
EXTENDS Integers, Sequences, FiniteSets, TLC

\* ------------------------------------------------------------------ bounds
MaxDocs == 3
MaxK == 4

\* ------------------------------------------------------- program constants
max_features == 5000
min_df == 2

\* ------------------------------------------------------------------ inputs
\* stop_words='english': the words of the model's texts that are on the list
StopWords == {"the"}

\* searchable_text values of the corpus files the model draws from
DocTexts ==
  { <<"the">>, <<"chicken">>, <<"pasta">>,
    <<"pasta", "the", "chicken", "chicken">> }

\* queries: every document text, a mixed-case query and an unseen word
QueryTexts == DocTexts \cup { <<"Chicken", "Pasta">>, <<"soup">> }

\* the k of a call: negative, zero, up to and beyond the corpus size
KRange == -2..MaxK

\* a record at store position i; searchable_text may be missing from the file
RecordsAt(i) ==
  { [recipe_id |-> i, searchable_text |-> t] : t \in DocTexts }
    \cup { [recipe_id |-> i] }

RECURSIVE Corpora(_)
Corpora(n) ==
  IF n = 0 THEN { <<>> }
  ELSE { Append(c, r) : c \in Corpora(n - 1), r \in RecordsAt(n) }

\* what recipes_path leads to: no readable file, a file that is not JSON,
\* or a JSON list of records
Sources ==
  { [kind |-> "unreadable", records |-> <<>>],
    [kind |-> "malformed", records |-> <<>>] }
    \cup { [kind |-> "json", records |-> c] :
             c \in UNION { Corpora(n) : n \in 0..MaxDocs } }

\* np.argsort's default kind is quicksort, which is not stable: the order it
\* gives equal keys depends on the build (insertion sort on short arrays
\* keeps index order; partitioning and SIMD kernels do not).
TieOrders == { "index_ascending", "index_descending" }

VARIABLES
  source,         \* the corpus file behind recipes_path
  tie_order,      \* how this build's argsort orders equal keys
  phase,          \* "new", "ready", "load_error", "index_error"
  recipes,        \* self.recipes
  vectorizer,     \* self.vectorizer: [state, vocabulary, idf]
  tfidf_matrix,   \* self.tfidf_matrix: [state, rows], one row per document
  call,           \* the last retrieve_recipes call: [made, query, k]
  top_k_indices,  \* its top_k_indices
  results         \* the list it returned

vars ==
  << source, tie_order, phase, recipes, vectorizer, tfidf_matrix, call,
     top_k_indices, results >>

\* a caller of the retriever that keeps the list one call returned
VARIABLES
  remembered      \* the kept call: [made, query, k, results]

caller_vars == << remembered >>

NoRemembered == [made |-> FALSE, query |-> << >>, k |-> 0, results |-> << >>]

CallerIdle == remembered = NoRemembered

\* data preparation (src/src/prepare_data.py): a cell of a data frame is
\* missing (NaN), a string or a number
NaN == [kind |-> "nan", s |-> "", n |-> 0]

Str(s) == [kind |-> "str", s |-> s, n |-> 0]

Num(n) == [kind |-> "num", s |-> "", n |-> n]

VARIABLES
  df_sample,      \* the frame load_and_sample_recipes returned
  df_processed,   \* the frame preprocess_recipes returned
  saved_recipes   \* what save_recipes wrote: [state, recipes, raised]

prep_vars == << df_sample, df_processed, saved_recipes >>

NoFrame == [state |-> "none", columns |-> {}, rows |-> << >>]

NotSaved == [state |-> "none", recipes |-> << >>, raised |-> "none"]

PrepIdle ==
  /\ df_sample = NoFrame
  /\ df_processed = NoFrame
  /\ saved_recipes = NotSaved

\* evaluation (src/src/evaluate_retrieval.py): the last call of a metric, the
\* last call of identify_relevant_recipes and the last run of
\* evaluate_retrieval_performance
VARIABLES
  metric_call,    \* [made, fn, relevant_items, retrieved_items, k, score]
  relevance_call, \* [made, query, recipes, threshold, relevant]
  eval_run        \* [made, results, k, raised, entry, ndcg_scores,
                  \*   recall_scores, query_metrics, saved]

eval_vars == << metric_call, relevance_call, eval_run >>

\* a score is the exact quotient num / den
NoMetricCall ==
  [made |-> FALSE, fn |-> "none", relevant_items |-> {},
   retrieved_items |-> << >>, k |-> 0, score |-> [num |-> 0, den |-> 1]]

NoRelevanceCall ==
  [made |-> FALSE, query |-> "", recipes |-> << >>, threshold |-> 0,
   relevant |-> {}]

\* nothing evaluated yet: the lists of line 131-133 are empty and
\* retrieval_metrics.json is not written
NoEvalRun ==
  [made |-> FALSE, results |-> << >>, k |-> 0, raised |-> "none", entry |-> 0,
   ndcg_scores |-> << >>, recall_scores |-> << >>, query_metrics |-> << >>,
   saved |-> FALSE]

EvalIdle ==
  /\ metric_call = NoMetricCall
  /\ relevance_call = NoRelevanceCall
  /\ eval_run = NoEvalRun

\* the conversational assistant (src/src/conversation_handler.py) and the
\* RAG pipeline it calls (src/src/rag_pipeline.py)
VARIABLES
  last_query,            \* self.last_query: [set, value], None is unset
  last_results,          \* self.last_results: [set, value]
  conversation_history,  \* self.conversation_history
  asked,                 \* the last ask: [made, query, before]
  rag_call,              \* the last answer_query: [made, user_query, k, log,
                         \*   raised, result]
  turn,                  \* the last operation, "ask" or "reset", and the
                         \*   assistant's fields before it: [op, before]
  asks_answered          \* the number of asks that returned

assistant_vars ==
  << last_query, last_results, conversation_history, asked, rag_call, turn,
     asks_answered >>

NoQuery == [set |-> FALSE, value |-> ""]

NoResults == [set |-> FALSE, value |-> << >>]

Some(v) == [set |-> TRUE, value |-> v]

NoAsk == [made |-> FALSE, query |-> "", before |-> NoQuery]

NoResult == [query |-> "", answer |-> "", retrieved_recipes |-> << >>,
             num_recipes_retrieved |-> 0]

NoRagCall ==
  [made |-> FALSE, user_query |-> "", k |-> 0, log |-> << >>,
   raised |-> "none", result |-> NoResult]

Fields(query, found, history) ==
  [last_query |-> query, last_results |-> found,
   conversation_history |-> history]

NoTurn == [op |-> "none", before |-> Fields(NoQuery, NoResults, << >>)]

AssistantIdle ==
  /\ last_query = NoQuery
  /\ last_results = NoResults
  /\ conversation_history = << >>
  /\ asked = NoAsk
  /\ rag_call = NoRagCall
  /\ turn = NoTurn
  /\ asks_answered = 0

\* the variables of the other parts, which the retriever leaves alone
beside_retriever == << caller_vars, prep_vars, eval_vars, assistant_vars >>

BesideRetrieverIdle == CallerIdle /\ PrepIdle /\ EvalIdle /\ AssistantIdle

\* the variables of the other parts, which the caller's loop leaves alone
beside_calls == << prep_vars, eval_vars, assistant_vars >>

\* the variables of the other parts, which data preparation leaves alone
beside_prep == << vars, caller_vars, eval_vars, assistant_vars >>

\* the variables of the other parts, which the evaluation leaves alone
beside_eval == << vars, caller_vars, prep_vars, assistant_vars >>

\* the variables of the other parts, which the assistant leaves alone
beside_assistant == << vars, caller_vars, prep_vars, eval_vars >>

all_vars == << vars, beside_retriever >>

\* ------------------------------------------------------------ text analysis
Lower(tok) ==
  CASE tok = "Chicken" -> "chicken"
    [] tok = "Pasta" -> "pasta"
    [] OTHER -> tok

\* lowercase, then drop the stop words
Tokens(text) ==
  SelectSeq([i \in 1..Len(text) |-> Lower(text[i])],
            LAMBDA w : w \notin StopWords)

\* ngram_range=(1, 2): n-grams are formed after the stop words are removed
Analyze(text) ==
  LET toks == Tokens(text)
      unigrams == [i \in 1..Len(toks) |-> << toks[i] >>]
  IN  IF Len(toks) < 2 THEN unigrams
      ELSE unigrams
             \o [i \in 1..(Len(toks) - 1) |-> << toks[i], toks[i + 1] >>]

TermsOf(text) ==
  LET analyzed == Analyze(text)
  IN  { analyzed[i] : i \in 1..Len(analyzed) }

\* the number of times each term of the set occurs in the text
TermCounts(text, terms) ==
  LET analyzed == Analyze(text)
  IN  [t \in terms |->
         Cardinality({ i \in 1..Len(analyzed) : analyzed[i] = t })]

Tf(term, text) == TermCounts(text, {term})[term]

\* ------------------------------------------------------------- arithmetic
RECURSIVE SumOver(_, _)
SumOver(f, S) ==
  IF S = {} THEN 0
  ELSE LET t == CHOOSE x \in S : TRUE IN f[t] + SumOver(f, S \ {t})

\* integer square root, the r with r*r <= x < (r+1)*(r+1), by Newton's
\* iteration from a power of ten above the root
RECURSIVE SqrtFrom(_, _)
SqrtFrom(x, guess) ==
  LET better == (guess + x \div guess) \div 2
  IN  IF better >= guess THEN guess ELSE SqrtFrom(x, better)

ISqrt(x) ==
  IF x = 0 THEN 0
  ELSE SqrtFrom(x, IF x <= 100 THEN 10
                   ELSE IF x <= 10000 THEN 100
                   ELSE IF x <= 1000000 THEN 1000
                   ELSE IF x <= 100000000 THEN 10000
                   ELSE 46340)

\* 100 * ln(n) for n = 1..9
LnCenti == << 0, 69, 110, 139, 161, 179, 195, 208, 220 >>

\* norm='l2': divide by the Euclidean norm; a zero vector stays zero
Normalize(vec) ==
  LET norm == ISqrt(SumOver([t \in DOMAIN vec |-> vec[t] * vec[t]], DOMAIN vec))
  IN  IF norm = 0 THEN vec
      ELSE [t \in DOMAIN vec |-> (vec[t] * 1000) \div norm]

Dot(u, v) == SumOver([t \in DOMAIN u |-> u[t] * v[t]], DOMAIN u)

\* ------------------------------------------------------------ TF-IDF index
DocFreq(term, documents) ==
  Cardinality({ i \in 1..Len(documents) : term \in TermsOf(documents[i]) })

TotalTf(term, documents) ==
  SumOver([i \in 1..Len(documents) |-> Tf(term, documents[i])],
          1..Len(documents))

\* max_features: keep the terms of highest total frequency
LimitFeatures(terms, documents) ==
  IF Cardinality(terms) <= max_features THEN terms
  ELSE CHOOSE S \in SUBSET terms :
         /\ Cardinality(S) = max_features
         /\ \A s \in S, t \in terms \ S :
              TotalTf(s, documents) >= TotalTf(t, documents)

\* smooth_idf: idf = ln((1 + n) / (1 + df)) + 1
Idf(n, df) == LnCenti[1 + n] - LnCenti[1 + df] + 100

\* one TF-IDF row: tf * idf over the vocabulary, L2-normalized
TfidfRow(text, vocabulary, idf) ==
  LET tf == TermCounts(text, vocabulary)
  IN  Normalize([t \in vocabulary |-> tf[t] * idf[t]])

\* self.vectorizer and self.tfidf_matrix before they are assigned
NoVectorizer == [state |-> "None", vocabulary |-> {}, idf |-> << >>]
NoMatrix == [state |-> "None", rows |-> << >>]

\* the TfidfVectorizer object of line 52, before it is fitted
Unfitted == [state |-> "unfitted", vocabulary |-> {}, idf |-> << >>]

\* fit_transform raised: the vectorizer stays unfitted, no matrix is assigned
FitError(msg) == [error |-> msg, vectorizer |-> Unfitted, matrix |-> NoMatrix]

\* variant that fits whatever vocabulary is left and never raises
FitTransformNeverRaises(documents) ==
  LET n == Len(documents)
      all_terms == UNION { TermsOf(documents[i]) : i \in 1..n }
      kept == { t \in all_terms : DocFreq(t, documents) >= min_df }
      idf == [t \in kept |-> Idf(n, DocFreq(t, documents))]
  IN  [error |-> "none",
       vectorizer |-> [state |-> "fitted", vocabulary |-> kept, idf |-> idf],
       matrix |-> [state |-> "built",
                   rows |-> [i \in 1..n |-> TfidfRow(documents[i], kept, idf)]]]

\* TfidfVectorizer.fit_transform(documents): the fitted vectorizer and the
\* matrix, or the ValueError it raises
FitTransform(documents) ==
  LET n == Len(documents)
      all_terms == UNION { TermsOf(documents[i]) : i \in 1..n }
      kept == LimitFeatures(
                { t \in all_terms : DocFreq(t, documents) >= min_df },
                documents)
      idf == [t \in kept |-> Idf(n, DocFreq(t, documents))]
  IN  IF all_terms = {} THEN FitError("empty vocabulary")
      ELSE IF n < min_df THEN FitError("max_df < min_df")
      ELSE IF kept = {} THEN FitError("no terms remain")
      ELSE [error |-> "none",
            vectorizer |-> [state |-> "fitted", vocabulary |-> kept, idf |-> idf],
            matrix |-> [state |-> "built",
                        rows |-> [i \in 1..n |-> TfidfRow(documents[i], kept, idf)]]]

\* recipe.get('searchable_text', '')
SearchableText(recipe) ==
  IF "searchable_text" \in DOMAIN recipe THEN recipe.searchable_text ELSE <<>>

\* variant that leaves out the records without a searchable_text
DocumentsSkippingMissing(recs) ==
  LET present == SelectSeq(recs, LAMBDA r : "searchable_text" \in DOMAIN r)
  IN  [i \in 1..Len(present) |-> present[i].searchable_text]

\* the documents list of _build_index: one text per record, in store order
Documents(recs) == [i \in 1..Len(recs) |-> SearchableText(recs[i])]

BuildIndex(recs) == FitTransform(Documents(recs))

\* variant that swallows the error and goes on with no recipes
LoadRecipesSwallowingErrors(src) ==
  IF src.kind = "json" THEN [error |-> "none", recipes |-> src.records]
  ELSE [error |-> "none", recipes |-> << >>]

\* _load_recipes: open the file and json.load it
LoadRecipes(src) ==
  CASE src.kind = "unreadable" -> [error |-> "OSError", recipes |-> <<>>]
    [] src.kind = "malformed" -> [error |-> "JSONDecodeError", recipes |-> <<>>]
    [] OTHER -> [error |-> "none", recipes |-> src.records]

\* vectorizer.transform([query.lower()]): the query's TF-IDF vector
Transform(vec, query) == TfidfRow(query, vec.vocabulary, vec.idf)

\* variant computing the cosine distance, 1 - similarity
CosineDistance(query_vector, matrix) ==
  LET q == Normalize(query_vector)
  IN  [i \in 1..Len(matrix.rows) |->
         1000000 - Dot(q, Normalize(matrix.rows[i]))]

\* cosine_similarity(query_vector, tfidf_matrix).flatten()
CosineSimilarity(query_vector, matrix) ==
  LET q == Normalize(query_vector)
  IN  [i \in 1..Len(matrix.rows) |-> Dot(q, Normalize(matrix.rows[i]))]

\* ---------------------------------------------------------------- ranking
\* does argsort place index i before index j?  Ascending by value; equal
\* values in the order of this build's sort
SortsBefore(similarities, ties, i, j) ==
  \/ similarities[i] < similarities[j]
  \/ /\ similarities[i] = similarities[j]
     /\ IF ties = "index_ascending" THEN i < j ELSE i > j

RECURSIVE SortIndices(_, _, _)
SortIndices(similarities, ties, S) ==
  IF S = {} THEN << >>
  ELSE LET first == CHOOSE i \in S :
                      \A j \in S \ {i} : SortsBefore(similarities, ties, i, j)
       IN  << first >> \o SortIndices(similarities, ties, S \ {first})

\* np.argsort(similarities)
ArgSort(similarities, ties) ==
  SortIndices(similarities, ties, DOMAIN similarities)

\* Python's a[start:]: a negative start counts from the end, and the start is
\* clamped to the sequence
SliceFrom(a, start) ==
  LET n == Len(a)
      from == IF start < 0 THEN (IF n + start < 0 THEN 0 ELSE n + start)
              ELSE (IF start > n THEN n ELSE start)
  IN  SubSeq(a, from + 1, n)

\* a[::-1]
Reversed(a) == [i \in 1..Len(a) |-> a[Len(a) + 1 - i]]

\* variants of the slicing: one index too many, the reversal left out, the
\* slice taken from the low end
TopKIndicesOffByOne(similarities, ties, k) ==
  Reversed(SliceFrom(ArgSort(similarities, ties), 0 - (k + 1)))

TopKIndicesNoReverse(similarities, ties, k) ==
  SliceFrom(ArgSort(similarities, ties), 0 - k)

TopKIndicesLowest(similarities, ties, k) ==
  Reversed(SubSeq(ArgSort(similarities, ties), 1,
                  IF k < 0 THEN 0
                  ELSE IF k > Len(similarities) THEN Len(similarities) ELSE k))

\* np.argsort(similarities)[-k:][::-1]
TopKIndices(similarities, ties, k) ==
  Reversed(SliceFrom(ArgSort(similarities, ties), 0 - k))

\* recipe['relevance_score'] = float(score)
AttachScore(recipe, score) ==
  [f \in DOMAIN recipe \cup {"relevance_score"} |->
     IF f = "relevance_score" THEN score ELSE recipe[f]]

\* the entry appended to results for document index idx
ScoredRecipe(store, similarities, idx) ==
  AttachScore(store[idx], similarities[idx])

\* variant without the copy: the score is written into the stored record
StoreAfterAttachNoCopy(store, similarities, idx) ==
  [store EXCEPT ![idx] = AttachScore(store[idx], similarities[idx])]

\* self.recipes after the score of document idx was attached: the write goes
\* to the copy made by recipe.copy(), so the store is as before
StoreAfterAttach(store, similarities, idx) == store

\* variant that ranks by sorting self.recipes in place, best first
StoreAfterLoopSortedInPlace(store, similarities, indices) ==
  LET order == Reversed(ArgSort(similarities, "index_ascending"))
  IN  [i \in 1..Len(store) |-> store[order[i]]]

RECURSIVE StoreAfterLoop(_, _, _)
StoreAfterLoop(store, similarities, indices) ==
  IF indices = << >> THEN store
  ELSE StoreAfterLoop(StoreAfterAttach(store, similarities, Head(indices)),
                      similarities, Tail(indices))

\* the similarities array of a call
Similarities(vec, matrix, query) ==
  CosineSimilarity(Transform(vec, query), matrix)

\* ------------------------------------------------------------------ actions
NoCall == [made |-> FALSE, query |-> << >>, k |-> 0]

RetrieverInit ==
  /\ source \in Sources
  /\ tie_order \in TieOrders
  /\ phase = "new"
  /\ recipes = << >>
  /\ vectorizer = NoVectorizer
  /\ tfidf_matrix = NoMatrix
  /\ call = NoCall
  /\ top_k_indices = << >>
  /\ results = << >>
  /\ BesideRetrieverIdle

\* RecipeRetriever.__init__: _load_recipes, then _build_index
Construct ==
  /\ phase = "new"
  /\ LET loaded == LoadRecipes(source)
         built == BuildIndex(loaded.recipes)
     IN  IF loaded.error # "none"
           THEN /\ phase' = "load_error"
                /\ UNCHANGED << recipes, vectorizer, tfidf_matrix >>
         ELSE /\ recipes' = loaded.recipes
              /\ vectorizer' = built.vectorizer
              /\ tfidf_matrix' = built.matrix
              /\ phase' = IF built.error = "none" THEN "ready" ELSE "index_error"
  /\ UNCHANGED << source, tie_order, call, top_k_indices, results >>
  /\ UNCHANGED beside_retriever

\* RecipeRetriever.retrieve_recipes(query, k) on a constructed retriever
Retrieve(query, k) ==
  /\ phase = "ready"
  /\ ~call.made
  /\ LET similarities == Similarities(vectorizer, tfidf_matrix, query)
         indices == TopKIndices(similarities, tie_order, k)
     IN  /\ top_k_indices' = indices
         /\ results' = [j \in 1..Len(indices) |->
                          ScoredRecipe(recipes, similarities, indices[j])]
         /\ recipes' = StoreAfterLoop(recipes, similarities, indices)
  /\ call' = [made |-> TRUE, query |-> query, k |-> k]
  /\ UNCHANGED << source, tie_order, phase, vectorizer, tfidf_matrix >>
  /\ UNCHANGED beside_retriever

\* the caller is done with the returned list; the retriever is ready for the
\* next call
Discard ==
  /\ call.made
  /\ call' = NoCall
  /\ top_k_indices' = << >>
  /\ results' = << >>
  /\ UNCHANGED << source, tie_order, phase, recipes, vectorizer, tfidf_matrix >>
  /\ UNCHANGED beside_retriever

RetrieverNext ==
  \/ Construct
  \/ \E query \in QueryTexts, k \in KRange : Retrieve(query, k)
  \/ Discard

RetrieverSpec == RetrieverInit /\ [][RetrieverNext]_all_vars


\* ==================================================================
\* Properties of the retriever, checked under RetrieverSpec
\* ==================================================================
Min(a, b) == IF a < b THEN a ELSE b

\* the similarities of the last call, computed again from the index
CallSimilarities == Similarities(vectorizer, tfidf_matrix, call.query)

ReturnedIndices == { top_k_indices[j] : j \in 1..Len(top_k_indices) }

\* C1: for every corpus, every query and every k <= 0, retrieve_recipes
\* returns an empty list.
C1_EmptyForNonPositiveK ==
  (call.made /\ call.k <= 0) => results = << >>

\* C2: documents of exactly equal score are returned in store order, lower
\* index first; for an all-zero query vector the result is the first
\* min(k, n) documents of the store in store order.
C2_TiesInStoreOrder ==
  (call.made /\ call.k > 0) =>
    /\ \A a, b \in 1..Len(results) :
         (a < b /\ results[a].relevance_score = results[b].relevance_score)
           => top_k_indices[a] < top_k_indices[b]
    /\ (\A i \in 1..Len(recipes) : CallSimilarities[i] = 0)
         => top_k_indices = [j \in 1..Min(call.k, Len(recipes)) |-> j]

\* C3: for k > 0 the call returns exactly min(k, n) results, each a distinct
\* document of the store; when k exceeds n it returns all n documents.
C3_ReturnsMinKN ==
  (call.made /\ call.k > 0) =>
    /\ Len(results) = Min(call.k, Len(recipes))
    /\ Len(top_k_indices) = Len(results)
    /\ ReturnedIndices \subseteq 1..Len(recipes)
    /\ Cardinality(ReturnedIndices) = Len(results)
    /\ (call.k > Len(recipes) => ReturnedIndices = 1..Len(recipes))

C3_Witness ==
  /\ call.made
  /\ call.k = 2
  /\ Len(recipes) = 3
  /\ Len(results) = 2
  /\ top_k_indices[1] # top_k_indices[2]

\* C4: for k > 0 the returned relevance_score values are non-increasing from
\* first to last, and no document left out of the result has a score
\* strictly higher than the lowest score in the result.
C4_TopKCorrect ==
  (call.made /\ call.k > 0) =>
    /\ \A j \in 1..(Len(results) - 1) :
         results[j].relevance_score >= results[j + 1].relevance_score
    /\ \A i \in (1..Len(recipes)) \ ReturnedIndices :
         \A j \in 1..Len(results) :
           CallSimilarities[i] <= results[j].relevance_score

C4_Witness ==
  /\ call.made
  /\ call.k = 2
  /\ Len(recipes) = 3
  /\ Len(results) = 2
  /\ results[1].relevance_score > results[2].relevance_score
  /\ \E i \in (1..3) \ ReturnedIndices :
       CallSimilarities[i] < results[2].relevance_score

\* C5: a retrieve_recipes call on an initialized retriever leaves the stored
\* recipe list and the index unchanged (same records, same order, no field
\* changed), and no stored record gains a relevance_score field: the scores
\* are attached to per-call copies only.
C5_RetrieveLeavesStoreAndIndex ==
  [][phase = "ready" =>
       /\ recipes' = recipes
       /\ vectorizer' = vectorizer
       /\ tfidf_matrix' = tfidf_matrix
       /\ \A i \in 1..Len(recipes') :
            "relevance_score" \notin DOMAIN recipes'[i]]_vars

C5_Witness ==
  /\ call.made
  /\ Len(results) = 3
  /\ recipes = source.records
  /\ \A j \in 1..3 :
       /\ "relevance_score" \in DOMAIN results[j]
       /\ "relevance_score" \notin DOMAIN recipes[top_k_indices[j]]
  /\ results[1].relevance_score > 0

\* the documents whose own searchable_text is the query of the last call
SelfQueried ==
  { i \in 1..Len(recipes) : SearchableText(recipes[i]) = call.query }

QueryInVocabulary == TermsOf(call.query) \cap vectorizer.vocabulary # {}

PositivelyScored == { i \in 1..Len(recipes) : CallSimilarities[i] > 0 }

ReturnedWithPositiveScore(i) ==
  \E j \in 1..Len(results) :
    top_k_indices[j] = i /\ results[j].relevance_score > 0

\* C6 as stated: querying with the searchable_text of any document d of a
\* corpus on which the index builds gives d a score strictly greater than 0
\* and returns d among the top results, also when all of d's terms are
\* excluded from the vocabulary by the 2-document minimum (stated here for
\* the documents that have a term at all).
C6_SelfQueryAlwaysPositive ==
  (call.made /\ call.k > 0 /\ TermsOf(call.query) # {}) =>
    \A i \in SelfQueried :
      /\ CallSimilarities[i] > 0
      /\ (call.k >= Len(recipes) => ReturnedWithPositiveScore(i))

\* C6 as amended: querying with the searchable_text of a document d that has
\* at least one term in the vocabulary gives d a score strictly greater than
\* 0, and d is returned whenever k is at least the number of documents of
\* positive score; a document none of whose terms is in the vocabulary
\* scores exactly 0 against its own text.
C6_SelfQueryPositiveWhenInVocabulary ==
  (call.made /\ call.k > 0) =>
    \A i \in SelfQueried :
      IF QueryInVocabulary
        THEN /\ CallSimilarities[i] > 0
             /\ (call.k >= Cardinality(PositivelyScored)
                   => ReturnedWithPositiveScore(i))
        ELSE CallSimilarities[i] = 0

C6_Witness ==
  /\ call.made
  /\ call.k = 2
  /\ Len(recipes) = 3
  /\ QueryInVocabulary
  /\ Cardinality(PositivelyScored) = 2
  /\ \E i \in SelfQueried : ReturnedWithPositiveScore(i)
  /\ \E i \in 1..3 : i \notin ReturnedIndices

\* C7: a query none of whose terms is in the vocabulary is answered, not
\* refused: every relevance_score is exactly 0 and, for k > 0, the result
\* has min(k, n) entries.
C7_ZeroOverlapQuery ==
  (call.made /\ call.k > 0 /\ ~QueryInVocabulary) =>
    /\ phase = "ready"
    /\ Len(results) = Min(call.k, Len(recipes))
    /\ \A j \in 1..Len(results) : results[j].relevance_score = 0

C7_Witness ==
  /\ call.made
  /\ call.k = 2
  /\ call.query = << "soup" >>
  /\ Len(recipes) = 3
  /\ Len(results) = 2
  /\ results[1].relevance_score = 0
  /\ results[2].relevance_score = 0

\* every document of the corpus file is empty once the stop words are gone
\* (an empty corpus included)
NoUsableDocument ==
  \A i \in 1..Len(source.records) :
    Tokens(SearchableText(source.records[i])) = << >>

\* C8: initializing on an empty corpus, or on a corpus in which every
\* document is empty after stop-word filtering, fails with an index-build
\* error: no matrix is built, the retriever never becomes ready and no
\* retrieve call is ever made on it.
C8_IndexBuildError ==
  (source.kind = "json" /\ NoUsableDocument /\ phase # "new") =>
    /\ phase = "index_error"
    /\ vectorizer.state = "unfitted"
    /\ tfidf_matrix.state = "None"
    /\ ~call.made

C8_Witness ==
  /\ phase = "index_error"
  /\ Len(source.records) = 2
  /\ \A i \in 1..2 :
       /\ "searchable_text" \in DOMAIN source.records[i]
       /\ source.records[i].searchable_text = << "the" >>

ScoreOfRecord(recipe) ==
  Dot(Normalize(Transform(vectorizer, call.query)),
      Normalize(TfidfRow(SearchableText(recipe), vectorizer.vocabulary,
                         vectorizer.idf)))

\* C10: the result built from document index i carries store record i and
\* the similarity of the query to row i, and row i was built from store
\* record i's searchable_text (empty when the field is missing): store
\* order and row order are the same ingestion order.
C10_ScorePairedWithRecord ==
  phase = "ready" =>
    /\ recipes = source.records
    /\ Len(tfidf_matrix.rows) = Len(recipes)
    /\ \A i \in 1..Len(recipes) :
         tfidf_matrix.rows[i] =
           TfidfRow(SearchableText(recipes[i]), vectorizer.vocabulary,
                    vectorizer.idf)
    /\ call.made =>
         /\ Len(results) = Len(top_k_indices)
         /\ \A j \in 1..Len(results) :
              results[j] =
                AttachScore(source.records[top_k_indices[j]],
                            ScoreOfRecord(source.records[top_k_indices[j]]))

C10_Witness ==
  /\ call.made
  /\ Len(results) = 3
  /\ results[1].relevance_score > results[3].relevance_score
  /\ top_k_indices[3] < 3
  /\ "searchable_text" \notin DOMAIN recipes[top_k_indices[3]]

\* ==================================================================
\* Part 2: repeated calls.  A caller keeps the list one call returned and
\* goes on calling (src/src/retrieval.py, RecipeRetriever.search and the
\* loop of the module's test block).
\* ==================================================================
\* corpora that begin with two records of the same text, so that the scores
\* of every query are tied, followed by any records
RepeatedCallSources ==
  { src \in Sources :
      /\ src.kind = "json"
      /\ Len(src.records) = MaxDocs
      /\ \A i \in 1..2 :
           /\ "searchable_text" \in DOMAIN src.records[i]
           /\ src.records[i].searchable_text = << "chicken" >> }

RepeatedCallsInit ==
  /\ RetrieverInit
  /\ source \in RepeatedCallSources

\* results = retriever.search(query, k): the caller keeps the returned list
Remember ==
  /\ call.made
  /\ ~remembered.made
  /\ remembered' = [made |-> TRUE, query |-> call.query, k |-> call.k,
                    results |-> results]
  /\ call' = NoCall
  /\ top_k_indices' = << >>
  /\ results' = << >>
  /\ UNCHANGED << source, tie_order, phase, recipes, vectorizer, tfidf_matrix >>
  /\ UNCHANGED beside_calls

RepeatedCallsNext ==
  \/ Construct
  \/ \E query \in QueryTexts, k \in KRange : Retrieve(query, k)
  \/ Discard
  \/ Remember

RepeatedCallsSpec == RepeatedCallsInit /\ [][RepeatedCallsNext]_all_vars

\* C11: for a fixed corpus, a call with the same query and the same k as an
\* earlier call returns the identical list (same records, same order, same
\* scores), whatever calls were made before or between the two.
C11_SameCallSameResults ==
  (call.made /\ remembered.made
     /\ call.query = remembered.query /\ call.k = remembered.k)
    => results = remembered.results

C11_Witness ==
  /\ call.made
  /\ remembered.made
  /\ call.query = remembered.query
  /\ call.k = remembered.k
  /\ call.k = 2
  /\ Len(results) = 2
  /\ results[1].relevance_score = results[2].relevance_score
  /\ results[1].relevance_score > 0

\* ==================================================================
\* Part 3: data preparation (src/src/prepare_data.py): preprocess_recipes,
\* create_recipe_text and save_recipes.  Strings are character strings.
\* ==================================================================
MaxRows == 1

\* ------------------------------------------------------------------ strings
Chr(s, i) == SubSeq(s, i, i)

\* the first position of character c in s at or after i, 0 when there is none
RECURSIVE IndexIn(_, _, _)
IndexIn(c, s, i) ==
  IF i > Len(s) THEN 0
  ELSE IF Chr(s, i) = c THEN i
  ELSE IndexIn(c, s, i + 1)

UpperCase == "ABCDEFGHIJKLMNOPQRSTUVWXYZ"

LowerCase == "abcdefghijklmnopqrstuvwxyz"

Digits == "0123456789"

UpperLetters == { Chr(UpperCase, i) : i \in 1..Len(UpperCase) }

LowerChar(c) ==
  IF c \in UpperLetters THEN Chr(LowerCase, IndexIn(c, UpperCase, 1)) ELSE c

\* str.lower()
RECURSIVE StrLower(_)
StrLower(s) ==
  IF Len(s) = 0 THEN ""
  ELSE LowerChar(Chr(s, 1)) \o StrLower(SubSeq(s, 2, Len(s)))

\* str.strip(): the white space of the model's strings is the space
RECURSIVE LStrip(_)
LStrip(s) ==
  IF Len(s) > 0 /\ Chr(s, 1) = " " THEN LStrip(SubSeq(s, 2, Len(s))) ELSE s

RECURSIVE RStrip(_)
RStrip(s) ==
  IF Len(s) > 0 /\ Chr(s, Len(s)) = " "
  THEN RStrip(SubSeq(s, 1, Len(s) - 1))
  ELSE s

StrStrip(s) == LStrip(RStrip(s))

\* " ".join(parts)
RECURSIVE JoinWithSpace(_)
JoinWithSpace(parts) ==
  IF Len(parts) = 0 THEN ""
  ELSE IF Len(parts) = 1 THEN parts[1]
  ELSE parts[1] \o " " \o JoinWithSpace(Tail(parts))

IsDigits(s) ==
  /\ Len(s) > 0
  /\ \A i \in 1..Len(s) : IndexIn(Chr(s, i), Digits, 1) > 0

RECURSIVE DigitsValue(_)
DigitsValue(s) ==
  IF Len(s) = 0 THEN 0
  ELSE 10 * DigitsValue(SubSeq(s, 1, Len(s) - 1))
         + (IndexIn(Chr(s, Len(s)), Digits, 1) - 1)

\* ------------------------------------------------------------------- inputs
\* the values a column of the source file holds
RawValues(column) ==
  CASE column = "recipe_id" -> { NaN, Num(7) }
    [] column = "title" -> { NaN, Str("Pasta Bake ") }
    [] column = "tags" -> { NaN, Str("Quick") }
    [] column = "ingredients" -> { NaN, Str(" egg") }
    [] column = "duration" -> { NaN, Str("30 min"), Num(30) }
    [] column = "calories" ->
         { NaN, Str("n/a"), Str("400"), Num(0), Num(150), Num(200),
           Num(600), Num(750) }

\* the column sets of the source files: tags and calories may be absent
ColumnSets ==
  { {"recipe_id", "title", "ingredients", "duration"} \cup optional :
      optional \in SUBSET {"tags", "calories"} }

RECURSIVE RowsOver(_)
RowsOver(columns) ==
  IF columns = {} THEN { << >> }
  ELSE LET c == CHOOSE x \in columns : TRUE
       IN  { (c :> v) @@ r : v \in RawValues(c), r \in RowsOver(columns \ {c}) }

RECURSIVE RowLists(_, _)
RowLists(rows, n) ==
  IF n = 0 THEN { << >> }
  ELSE { Append(l, r) : l \in RowLists(rows, n - 1), r \in rows }

FramesOver(columns, max_rows) ==
  LET rows == RowsOver(columns)
  IN  { [state |-> "loaded", columns |-> columns, rows |-> l] :
          l \in UNION { RowLists(rows, n) : n \in 0..max_rows } }

\* the frames of at most max_rows rows
Frames(max_rows) == UNION { FramesOver(cs, max_rows) : cs \in ColumnSets }

\* ------------------------------------------------------- preprocess_recipes
RECURSIVE ToDigits(_)
ToDigits(n) ==
  IF n < 10 THEN Chr(Digits, n + 1)
  ELSE ToDigits(n \div 10) \o Chr(Digits, (n % 10) + 1)

\* .fillna('')
Fillna(cell) == IF cell.kind = "nan" THEN Str("") ELSE cell

\* .astype(str)
AsType(cell) == IF cell.kind = "num" THEN Str(ToDigits(cell.n)) ELSE cell

\* a text column's cell: fillna(''), astype(str), str.lower(), str.strip()
CleanText(cell) == Str(StrStrip(StrLower(AsType(Fillna(cell)).s)))

\* pd.to_numeric(errors='coerce'): what does not parse becomes NaN
ToNumeric(cell) ==
  CASE cell.kind = "num" -> cell
    [] cell.kind = "str" ->
         IF IsDigits(StrStrip(cell.s)) THEN Num(DigitsValue(StrStrip(cell.s)))
         ELSE NaN
    [] OTHER -> NaN

\* pd.cut(bins=[0, 200, 400, 600, inf], labels=[...]): right=True and
\* include_lowest=False are the defaults, so a bin is (low, high] and a
\* value in no bin gets NaN
HealthCategory(calories) ==
  IF calories.kind # "num" THEN NaN
  ELSE CASE 0 < calories.n /\ calories.n <= 200 -> Str("low_calorie")
         [] 200 < calories.n /\ calories.n <= 400 -> Str("moderate")
         [] 400 < calories.n /\ calories.n <= 600 -> Str("high_calorie")
         [] 600 < calories.n -> Str("very_high_calorie")
         [] OTHER -> NaN

text_fields == { "title", "tags", "ingredients" }

numeric_fields == { "calories", "protein", "sugars", "sodium", "duration" }

essential_cols == { "recipe_id", "title" }

\* the row after the text and numeric columns are cleaned
CleanRow(row) ==
  [c \in DOMAIN row |->
     IF c \in text_fields THEN CleanText(row[c])
     ELSE IF c \in numeric_fields THEN ToNumeric(row[c])
     ELSE row[c]]

\* the row with its health_category, which exists when calories does
WithHealthCategory(row) ==
  IF "calories" \in DOMAIN row
  THEN ("health_category" :> HealthCategory(row["calories"])) @@ row
  ELSE row

\* dropna(subset=essential columns that exist) keeps this row
KeptByDropna(row) ==
  \A c \in essential_cols \cap DOMAIN row : row[c].kind # "nan"

PreprocessFrame(frame) ==
  LET cleaned == [i \in 1..Len(frame.rows) |->
                    WithHealthCategory(CleanRow(frame.rows[i]))]
  IN  [state |-> "processed",
       columns |-> IF "calories" \in frame.columns
                   THEN frame.columns \cup {"health_category"}
                   ELSE frame.columns,
       rows |-> SelectSeq(cleaned, KeptByDropna)]

\* ------------------------------------------------------ create_recipe_text
Notna(cell) == cell.kind # "nan"

PartOf(row, field) ==
  IF field \in DOMAIN row /\ Notna(row[field])
  THEN << AsType(row[field]).s >>
  ELSE << >>

CreateRecipeText(row) ==
  JoinWithSpace(PartOf(row, "title") \o PartOf(row, "tags")
                  \o PartOf(row, "ingredients"))

\* ------------------------------------------------------------ save_recipes
\* df.apply(create_recipe_text), to_dict('records'), json.dump; printing the
\* sample recipes[0] afterwards raises IndexError when no row is left
SaveFrame(frame) ==
  [state |-> "saved",
   recipes |-> [i \in 1..Len(frame.rows) |->
                  ("searchable_text" :> Str(CreateRecipeText(frame.rows[i])))
                    @@ frame.rows[i]],
   raised |-> IF Len(frame.rows) = 0 THEN "IndexError" ELSE "none"]

\* ----------------------------------------------------------------- actions
\* the retriever and its caller while data is prepared
RetrieverIdle ==
  /\ source = [kind |-> "unreadable", records |-> << >>]
  /\ tie_order = "index_ascending"
  /\ phase = "new"
  /\ recipes = << >>
  /\ vectorizer = NoVectorizer
  /\ tfidf_matrix = NoMatrix
  /\ call = NoCall
  /\ top_k_indices = << >>
  /\ results = << >>

BesidePrepIdle ==
  RetrieverIdle /\ CallerIdle /\ EvalIdle /\ AssistantIdle

\* main(), step 1: df = load_and_sample_recipes(...)
PrepInit ==
  /\ df_sample \in Frames(MaxRows)
  /\ df_processed = NoFrame
  /\ saved_recipes = NotSaved
  /\ BesidePrepIdle

\* main(), step 2: df_processed = preprocess_recipes(df)
PreprocessRecipes ==
  /\ df_sample.state = "loaded"
  /\ df_processed.state = "none"
  /\ df_processed' = PreprocessFrame(df_sample)
  /\ UNCHANGED << df_sample, saved_recipes >>
  /\ UNCHANGED beside_prep

\* main(), step 3: recipes = save_recipes(df_processed, OUTPUT_PATH)
SaveRecipes ==
  /\ df_processed.state = "processed"
  /\ saved_recipes.state = "none"
  /\ saved_recipes' = SaveFrame(df_processed)
  /\ UNCHANGED << df_sample, df_processed >>
  /\ UNCHANGED beside_prep

PrepNext ==
  \/ PreprocessRecipes
  \/ SaveRecipes

PrepSpec == PrepInit /\ [][PrepNext]_all_vars

\* ------------------------------------------------------------------ claims
\* the category the left-closed buckets [0,200), [200,400), [400,600),
\* [600,+inf) give
LeftClosedCategory(calories) ==
  IF calories.kind # "num" THEN NaN
  ELSE CASE calories.n < 200 -> Str("low_calorie")
         [] calories.n < 400 -> Str("moderate")
         [] calories.n < 600 -> Str("high_calorie")
         [] OTHER -> Str("very_high_calorie")

\* C12: health_category follows from calories by the left-closed,
\* right-open buckets and is undefined only when calories is missing; so 0
\* gives low_calorie, 200 moderate, 400 high_calorie, 600 very_high_calorie.
C12_LeftClosedBuckets ==
  (df_processed.state = "processed" /\ "calories" \in df_processed.columns)
    => \A i \in 1..Len(df_processed.rows) :
         df_processed.rows[i]["health_category"] =
           LeftClosedCategory(df_processed.rows[i]["calories"])

MissingOrEmpty(cell) == cell.kind = "nan" \/ (cell.kind = "str" /\ cell.s = "")

\* the rows of the source frame that have both a recipe_id and a title
RowsWithIdAndTitle ==
  SelectSeq(df_sample.rows,
            LAMBDA r : \A c \in essential_cols : r[c].kind # "nan")

\* C13: every record preprocessing keeps has a non-empty recipe_id and a
\* non-empty title: a row whose title or recipe_id is missing is dropped,
\* and a row that only misses an optional field is kept.
C13_KeptRowsHaveIdAndTitle ==
  saved_recipes.state = "saved" =>
    /\ \A i \in 1..Len(saved_recipes.recipes) :
         \A c \in essential_cols :
           ~MissingOrEmpty(saved_recipes.recipes[i][c])
    /\ Len(saved_recipes.recipes) = Len(RowsWithIdAndTitle)

\* the non-empty ones of a record's title, tags and ingredients, in order
PresentParts(record) ==
  SelectSeq(PartOf(record, "title") \o PartOf(record, "tags")
              \o PartOf(record, "ingredients"),
            LAMBDA part : Len(part) > 0)

\* C14: searchable_text is the present ones of title, tags and ingredients
\* joined by single spaces in that order: a missing tags or ingredients value
\* leaves no empty component and no doubled or trailing space.
C14_SearchableTextOmitsAbsent ==
  saved_recipes.state = "saved" =>
    \A i \in 1..Len(saved_recipes.recipes) :
      ~MissingOrEmpty(saved_recipes.recipes[i]["title"]) =>
        saved_recipes.recipes[i]["searchable_text"].s =
          JoinWithSpace(PresentParts(saved_recipes.recipes[i]))

\* ==================================================================
\* Part 4: the RAG pipeline (src/src/rag_pipeline.py, RecipeRAG.answer_query)
\* and the conversational assistant (src/src/conversation_handler.py).
\* ==================================================================
MaxTurns == 3

\* ask's default k, which interactive_conversation also passes
DefaultK == 5

\* sub in s
Contains(sub, s) ==
  \E i \in 1..(Len(s) - Len(sub) + 1) : SubSeq(s, i, i + Len(sub) - 1) = sub

\* len(s.split())
WordCount(s) ==
  Cardinality({ i \in 1..Len(s) :
                  /\ Chr(s, i) # " "
                  /\ (i = 1 \/ Chr(s, i - 1) = " ") })

\* ------------------------------------------------------------------- inputs
\* what the user types
UserQueries ==
  { "", "soup", "shorter", "with chicken instead",
    "easy pasta dinner recipes", "Show me a VEGAN pasta dish" }

\* the lists the retriever returns to the pipeline: a record with a title,
\* a record without one
RetrievedLists ==
  { << [recipe_id |-> 1, title |-> "pasta bake", relevance_score |-> 420] >>,
    << [recipe_id |-> 2, relevance_score |-> 0] >> }

\* how the two calls the pipeline makes end: each returns or raises
RetrievalOutcomes ==
  { [raised |-> TRUE, recipes |-> << >>] }
    \cup { [raised |-> FALSE, recipes |-> l] : l \in RetrievedLists }

LlmOutcomes ==
  { [raised |-> TRUE, answer |-> ""],
    [raised |-> FALSE, answer |-> "an answer"] }

Worlds == [retrieval : RetrievalOutcomes, llm : LlmOutcomes]

\* ------------------------------------------------- RecipeRAG.answer_query
Step(name, raised) == [step |-> name, raised |-> raised]

\* the verbose listing reads recipe['title'] of every retrieved recipe
ListingRaises(verbose, retrieved_recipes) ==
  /\ verbose
  /\ \E i \in 1..Len(retrieved_recipes) :
       "title" \notin DOMAIN retrieved_recipes[i]

\* mutant: a pipeline that calls the LLM a second time when it fails
AnswerQueryRetrying(user_query, k, verbose, world) ==
  IF world.retrieval.raised
  THEN [log |-> << Step("retrieve_recipes", TRUE) >>,
        raised |-> "retrieval_error", result |-> NoResult]
  ELSE IF ListingRaises(verbose, world.retrieval.recipes)
  THEN [log |-> << Step("retrieve_recipes", FALSE) >>,
        raised |-> "KeyError", result |-> NoResult]
  ELSE IF world.llm.raised
  THEN [log |-> << Step("retrieve_recipes", FALSE),
                   Step("_create_prompt", FALSE), Step("_call_llm", TRUE),
                   Step("_call_llm", TRUE) >>,
        raised |-> "llm_error", result |-> NoResult]
  ELSE [log |-> << Step("retrieve_recipes", FALSE),
                   Step("_create_prompt", FALSE), Step("_call_llm", FALSE) >>,
        raised |-> "none",
        result |-> [query |-> user_query,
                    answer |-> world.llm.answer,
                    retrieved_recipes |-> world.retrieval.recipes,
                    num_recipes_retrieved |-> Len(world.retrieval.recipes)]]

\* the steps answer_query takes, the exception that ends it ("none" when it
\* returns) and the dictionary it returns
AnswerQuery(user_query, k, verbose, world) ==
  IF world.retrieval.raised
  THEN [log |-> << Step("retrieve_recipes", TRUE) >>,
        raised |-> "retrieval_error", result |-> NoResult]
  ELSE IF ListingRaises(verbose, world.retrieval.recipes)
  THEN [log |-> << Step("retrieve_recipes", FALSE) >>,
        raised |-> "KeyError", result |-> NoResult]
  ELSE IF world.llm.raised
  THEN [log |-> << Step("retrieve_recipes", FALSE),
                   Step("_create_prompt", FALSE), Step("_call_llm", TRUE) >>,
        raised |-> "llm_error", result |-> NoResult]
  ELSE [log |-> << Step("retrieve_recipes", FALSE),
                   Step("_create_prompt", FALSE), Step("_call_llm", FALSE) >>,
        raised |-> "none",
        result |-> [query |-> user_query,
                    answer |-> world.llm.answer,
                    retrieved_recipes |-> world.retrieval.recipes,
                    num_recipes_retrieved |-> Len(world.retrieval.recipes)]]

\* --------------------------------------------- ConversationalRecipeAssistant
clarification_keywords ==
  { "shorter", "longer", "faster", "slower", "healthier", "less healthy",
    "more calories", "fewer calories", "with chicken", "with beef",
    "with fish", "with vegetables", "without", "instead", "different",
    "another", "simpler", "easier", "harder", "vegan", "vegetarian",
    "gluten-free" }

\* mutant: only a keyword makes a query a clarification
IsClarificationByKeyword(query) ==
  LET query_lower == StrLower(query)
  IN  \E keyword \in clarification_keywords :
        Contains(keyword, query_lower)

IsClarification(query) ==
  LET query_lower == StrLower(query)
  IN  \/ \E keyword \in clarification_keywords :
           Contains(keyword, query_lower)
      \/ WordCount(query) <= 3

\* mutant: the clarification is put in front of the previous query
BuildClarifiedQueryInFront(original_query, clarification) ==
  clarification \o ", " \o original_query

BuildClarifiedQuery(original_query, clarification) ==
  LET clarification_lower == StrLower(clarification)
      has(word) == Contains(word, clarification_lower)
  IN  CASE has("instead") \/ has("with") ->
             original_query \o ", but " \o clarification
        [] has("shorter") \/ has("faster") \/ has("quicker") ->
             original_query \o " that takes less time"
        [] has("longer") \/ has("slower") ->
             original_query \o " that takes more time"
        [] has("healthier") \/ has("healthy") ->
             original_query \o " that is healthier"
        [] has("calorie") ->
             IF has("fewer") \/ has("less") \/ has("low")
             THEN original_query \o " with fewer calories"
             ELSE original_query \o " with more calories"
        [] OTHER -> original_query \o ", " \o clarification

\* Python's truth value of self.last_query: None and '' are false
Truthy(optional) == optional.set /\ optional.value # ""

\* mutant: an ask that does not look whether a previous query exists
ActualQueryUnguarded(previous, query) ==
  IF IsClarification(query)
  THEN BuildClarifiedQuery(previous.value, query)
  ELSE query

\* the query ask sends to the RAG system
ActualQuery(previous, query) ==
  IF Truthy(previous) /\ IsClarification(query)
  THEN BuildClarifiedQuery(previous.value, query)
  ELSE query

HistoryEntry(query, actual_query, result) ==
  [user_input |-> query, actual_query |-> actual_query,
   answer |-> result.answer,
   num_recipes |-> Len(result.retrieved_recipes)]

\* ConversationalRecipeAssistant.__init__
AssistantInit ==
  /\ last_query = NoQuery
  /\ last_results = NoResults
  /\ conversation_history = << >>
  /\ asked = NoAsk
  /\ rag_call = NoRagCall
  /\ turn = NoTurn
  /\ asks_answered = 0
  /\ RetrieverIdle /\ CallerIdle /\ PrepIdle /\ EvalIdle

\* mutant: an ask that stores the query before the RAG system answers
AskStoringFirst(query, world) ==
  /\ ~asked.made
  /\ Len(conversation_history) < MaxTurns
  /\ LET actual_query == ActualQuery(last_query, query)
         answered == AnswerQuery(actual_query, DefaultK, TRUE, world)
     IN  /\ asked' = [made |-> TRUE, query |-> query, before |-> last_query]
         /\ rag_call' = [made |-> TRUE, user_query |-> actual_query,
                         k |-> DefaultK, log |-> answered.log,
                         raised |-> answered.raised,
                         result |-> answered.result]
         /\ last_query' = Some(actual_query)
         /\ IF answered.raised = "none"
            THEN /\ last_results' = Some(answered.result.retrieved_recipes)
                 /\ conversation_history' =
                      Append(conversation_history,
                             HistoryEntry(query, actual_query,
                                          answered.result))
                 /\ asks_answered' = asks_answered + 1
            ELSE UNCHANGED << last_results, conversation_history,
                              asks_answered >>
  /\ turn' = [op |-> "ask",
              before |-> Fields(last_query, last_results,
                                conversation_history)]
  /\ UNCHANGED beside_assistant

\* assistant.ask(user_input, k=5): an exception of answer_query leaves ask
\* before anything is stored
Ask(query, world) ==
  /\ ~asked.made
  /\ Len(conversation_history) < MaxTurns
  /\ LET actual_query == ActualQuery(last_query, query)
         answered == AnswerQuery(actual_query, DefaultK, TRUE, world)
     IN  /\ asked' = [made |-> TRUE, query |-> query, before |-> last_query]
         /\ rag_call' = [made |-> TRUE, user_query |-> actual_query,
                         k |-> DefaultK, log |-> answered.log,
                         raised |-> answered.raised,
                         result |-> answered.result]
         /\ IF answered.raised = "none"
            THEN /\ last_query' = Some(actual_query)
                 /\ last_results' = Some(answered.result.retrieved_recipes)
                 /\ conversation_history' =
                      Append(conversation_history,
                             HistoryEntry(query, actual_query,
                                          answered.result))
                 /\ asks_answered' = asks_answered + 1
            ELSE UNCHANGED << last_query, last_results, conversation_history,
                              asks_answered >>
  /\ turn' = [op |-> "ask",
              before |-> Fields(last_query, last_results,
                                conversation_history)]
  /\ UNCHANGED beside_assistant

\* mutant: a reset that also forgets the history
ResetClearingHistory ==
  /\ ~asked.made
  /\ last_query' = NoQuery
  /\ last_results' = NoResults
  /\ conversation_history' = << >>
  /\ turn' = [op |-> "reset",
              before |-> Fields(last_query, last_results,
                                conversation_history)]
  /\ UNCHANGED << asked, rag_call, asks_answered >>
  /\ UNCHANGED beside_assistant

\* assistant.reset()
Reset ==
  /\ ~asked.made
  /\ last_query' = NoQuery
  /\ last_results' = NoResults
  /\ turn' = [op |-> "reset",
              before |-> Fields(last_query, last_results,
                                conversation_history)]
  /\ UNCHANGED << conversation_history, asked, rag_call, asks_answered >>
  /\ UNCHANGED beside_assistant

\* the loop of interactive_conversation goes on to the next input
NextInput ==
  /\ asked.made
  /\ asked' = NoAsk
  /\ rag_call' = NoRagCall
  /\ turn' = NoTurn
  /\ UNCHANGED << last_query, last_results, conversation_history,
                  asks_answered >>
  /\ UNCHANGED beside_assistant

AssistantNext ==
  \/ \E query \in UserQueries, world \in Worlds : Ask(query, world)
  \/ Reset
  \/ NextInput

AssistantSpec == AssistantInit /\ [][AssistantNext]_all_vars

\* ------------------------------------------------------------------ claims
PipelineSteps == << "retrieve_recipes", "_create_prompt", "_call_llm" >>

\* C15: each answer_query retrieves once, then creates the prompt, then
\* calls the LLM once, in that order: a step is taken only after the steps
\* before it returned, so the LLM is never called when retrieval raises, and
\* no step is taken twice.
C15_LlmAfterRetrieval ==
  rag_call.made =>
    /\ Len(rag_call.log) \in 1..Len(PipelineSteps)
    /\ \A i \in 1..Len(rag_call.log) :
         /\ rag_call.log[i].step = PipelineSteps[i]
         /\ i < Len(rag_call.log) => ~rag_call.log[i].raised
    /\ rag_call.raised = "none" <=>
         /\ Len(rag_call.log) = Len(PipelineSteps)
         /\ ~rag_call.log[Len(rag_call.log)].raised
    /\ rag_call.raised = "retrieval_error" =>
         rag_call.log = << Step("retrieve_recipes", TRUE) >>

C15_Witness ==
  /\ rag_call.made
  /\ rag_call.raised = "llm_error"
  /\ Len(rag_call.log) = 3
  /\ rag_call.log[3] = Step("_call_llm", TRUE)
  /\ Len(conversation_history) = 1

\* C20: an ask made while last_query is unset (on a fresh assistant or after
\* a reset) sends the user's query to the RAG system unchanged, whatever
\* the query is and whatever was asked before.
C20_FirstAskSentUnchanged ==
  (asked.made /\ ~asked.before.set) => rag_call.user_query = asked.query

C20_Witness ==
  /\ asked.made
  /\ ~asked.before.set
  /\ asked.query = "with chicken instead"
  /\ rag_call.raised = "none"
  /\ Len(conversation_history) = 2
  /\ conversation_history[1].actual_query = "easy pasta dinner recipes"
  /\ conversation_history[2].actual_query = "with chicken instead"

\* the assistant's fields before the last operation
Before == turn.before

Newest == conversation_history[Len(conversation_history)]

\* C21: when the RAG call inside ask raises, last_query, last_results and
\* conversation_history are as before the call; so the failed input leaves
\* no history entry and last_query, when set, is still the query of the
\* newest history entry, the last one answered.
C21_FailedAskChangesNothing ==
  /\ (turn.op = "ask" /\ rag_call.raised # "none") =>
       /\ last_query = Before.last_query
       /\ last_results = Before.last_results
       /\ conversation_history = Before.conversation_history
  /\ last_query.set =>
       /\ Len(conversation_history) > 0
       /\ last_query.value = Newest.actual_query

C21_Witness ==
  /\ turn.op = "ask"
  /\ rag_call.raised = "llm_error"
  /\ asked.query = "shorter"
  /\ Len(conversation_history) = 1
  /\ last_query = Some("easy pasta dinner recipes")
  /\ rag_call.user_query = "easy pasta dinner recipes that takes less time"

\* s begins with prefix and is longer
Extends(prefix, s) ==
  /\ Len(prefix) < Len(s)
  /\ SubSeq(s, 1, Len(prefix)) = prefix

\* C22: after a successful ask last_query is the query sent to the RAG
\* system and the actual_query of the newest history entry; a sent query
\* that is not the raw input begins with the previous last_query, so over
\* consecutive clarifications the sent query only grows and keeps beginning
\* with the query that started the run.
C22_LastQueryIsSentQuery ==
  /\ (turn.op = "ask" /\ rag_call.raised = "none") =>
       /\ last_query = Some(rag_call.user_query)
       /\ Newest.actual_query = rag_call.user_query
       /\ Newest.user_input = asked.query
  /\ (turn.op = "ask" /\ rag_call.user_query # asked.query) =>
       /\ Before.last_query.set
       /\ Extends(Before.last_query.value, rag_call.user_query)
  /\ \A i \in 1..(Len(conversation_history) - 1) :
       conversation_history[i + 1].actual_query
           # conversation_history[i + 1].user_input
         => Extends(conversation_history[i].actual_query,
                    conversation_history[i + 1].actual_query)

C22_Witness ==
  /\ turn.op = "ask"
  /\ rag_call.raised = "none"
  /\ Len(conversation_history) = 3
  /\ conversation_history[1].actual_query = "easy pasta dinner recipes"
  /\ conversation_history[2].user_input = "shorter"
  /\ conversation_history[3].user_input = "with chicken instead"
  /\ last_query =
       Some("easy pasta dinner recipes that takes less time, but with chicken instead")

\* C23: reset sets last_query and last_results to None and leaves the
\* history unchanged; an ask that returns appends exactly one entry to the
\* history and an ask that raises none, so the length of the history is the
\* number of asks that returned since construction.
C23_HistoryAppendOnly ==
  /\ turn.op = "reset" =>
       /\ last_query = NoQuery
       /\ last_results = NoResults
       /\ conversation_history = Before.conversation_history
  /\ turn.op = "ask" =>
       IF rag_call.raised = "none"
       THEN /\ Len(conversation_history)
                 = Len(Before.conversation_history) + 1
            /\ SubSeq(conversation_history, 1,
                      Len(Before.conversation_history))
                 = Before.conversation_history
       ELSE conversation_history = Before.conversation_history
  /\ Len(conversation_history) = asks_answered

C23_Witness ==
  /\ turn.op = "reset"
  /\ Before.last_query.set
  /\ Before.last_results.set
  /\ Len(conversation_history) = 2
  /\ asks_answered = 2
  /\ last_query = NoQuery

\* the query has three words or fewer or contains a clarification keyword
ShortOrKeyword(query) ==
  LET query_lower == StrLower(query)
  IN  \/ WordCount(query) <= 3
      \/ \E keyword \in clarification_keywords :
           Contains(keyword, query_lower)

\* what the last ask did with its query, given that it counts as a
\* follow-up: combined with the previous query, or sent unchanged and, when
\* answered, stored as last_query
FollowUpRule ==
  IF ShortOrKeyword(asked.query)
  THEN /\ rag_call.user_query # asked.query
       /\ Extends(asked.before.value, rag_call.user_query)
  ELSE /\ rag_call.user_query = asked.query
       /\ rag_call.raised = "none" => last_query = Some(asked.query)

\* C24 as stated: whenever a previous query exists, a query of three words
\* or fewer or with a clarification keyword is combined with the previous
\* query; a query of four or more words without a keyword is sent unchanged
\* and replaces last_query.
C24_FollowUpWheneverPreviousExists ==
  (turn.op = "ask" /\ asked.before.set) => FollowUpRule

\* C24: whenever a previous query exists and is not the empty string, a
\* query of three words or fewer or with a clarification keyword is combined
\* with the previous query, and a query of four or more words without a
\* keyword is sent unchanged and replaces last_query; after an empty
\* previous query every query is sent unchanged.
C24_FollowUpWhenPreviousNotEmpty ==
  /\ (turn.op = "ask" /\ asked.before.set /\ asked.before.value # "")
       => FollowUpRule
  /\ (turn.op = "ask" /\ asked.before.set /\ asked.before.value = "")
       => rag_call.user_query = asked.query

C24_Witness ==
  /\ turn.op = "ask"
  /\ asked.before = Some("easy pasta dinner recipes")
  /\ asked.query = "soup"
  /\ rag_call.user_query = "easy pasta dinner recipes, soup"
  /\ rag_call.raised = "none"

\* ==================================================================
\* Part 5: evaluation (src/src/evaluate_retrieval.py): calculate_ndcg_at_k,
\* calculate_recall_at_k, identify_relevant_recipes and
\* evaluate_retrieval_performance on the results that
\* src/src/run_all_tests.py writes.  A relevance score
\* and the threshold are in 1/100; a metric's value is the exact quotient
\* num / den, the discounts 1/log2(i+1) being in 1/10000.
\* ==================================================================
MaxRetrieved == 3
MaxCut == 3
MaxCandidates == 2
MaxTests == 2

\* threshold=0.15
DefaultThreshold == 15

\* rag.answer_query(query, k=5, verbose=False)
TestK == 5

\* ------------------------------------------------------------------- inputs
\* recipe ids of the metric calls
ItemIds == { 1, 5, 9 }

RECURSIVE ItemLists(_)
ItemLists(n) ==
  IF n = 0 THEN { << >> }
  ELSE { Append(l, x) : l \in ItemLists(n - 1), x \in ItemIds }

RetrievedItems == UNION { ItemLists(n) : n \in 0..MaxRetrieved }

CutRange == 0..MaxCut

\* the queries of the test cases
EvalQueries ==
  { "", "Show me the", "chicken", "what is a quick EGG dinner",
    "soup with pasta" }

\* a retrieved recipe at position i: title, tags and relevance_score may each
\* be missing from the record
CandidatesAt(i) ==
  { ("recipe_id" :> i) @@ text @@ score :
      text \in { << >>, "title" :> "eggplant bake", "tags" :> "Quick Dinner",
                 ("title" :> "Chicken Soup") @@ ("tags" :> "Quick Dinner") },
      score \in { << >>, "relevance_score" :> 14, "relevance_score" :> 15 } }

RECURSIVE CandidateLists(_)
CandidateLists(n) ==
  IF n = 0 THEN { << >> }
  ELSE { Append(l, r) : l \in CandidateLists(n - 1), r \in CandidatesAt(n) }

Candidates == UNION { CandidateLists(n) : n \in 0..MaxCandidates }

\* the queries of test_qa_pairs.json
TestQueries == { "chicken", "soup with pasta" }

\* what the retriever returns for a test query
TestRetrievals ==
  { << >>,
    << [recipe_id |-> 1, title |-> "Chicken Soup", tags |-> "Quick Dinner",
        relevance_score |-> 15] >>,
    << [recipe_id |-> 1, title |-> "Chicken Soup", tags |-> "Quick Dinner",
        relevance_score |-> 15],
       [recipe_id |-> 5, title |-> "eggplant bake", tags |-> "",
        relevance_score |-> 14] >> }

\* how retrieval and the LLM call end for one test query
TestWorlds ==
  [retrieval : { [raised |-> TRUE, recipes |-> << >>] }
                 \cup { [raised |-> FALSE, recipes |-> l] :
                          l \in TestRetrievals },
   llm : LlmOutcomes]

\* one pass of the loop of run_all_tests.py: the result of answer_query, or
\* the query and the error when answer_query raises
TestEntry(query, world) ==
  LET answered == AnswerQuery(query, TestK, FALSE, world)
  IN  IF answered.raised = "none"
      THEN answered.result
      ELSE [query |-> query, error |-> answered.raised]

\* the lists run_all_tests.py writes to test_results.json for n test pairs;
\* strings, numbers and lists are read back from the JSON file as written
RECURSIVE TestResults(_)
TestResults(n) ==
  IF n = 0 THEN { << >> }
  ELSE { Append(test_results, TestEntry(query, world)) :
           test_results \in TestResults(n - 1), query \in TestQueries,
           world \in TestWorlds }

ResultsFiles(max_tests) == UNION { TestResults(n) : n \in 0..max_tests }

\* ------------------------------------------------------------- the metrics
\* 10000 / log2(i + 1), rounded
Discount(i) ==
  CASE i = 1 -> 10000
    [] i = 2 -> 6309
    [] i = 3 -> 5000
    [] i = 4 -> 4307
    [] i = 5 -> 3869
    [] i = 6 -> 3562
    [] i = 7 -> 3333
    [] OTHER -> 3155

\* retrieved_items[:k] for k >= 0
FirstK(retrieved_items, k) ==
  SubSeq(retrieved_items, 1, IF k < Len(retrieved_items) THEN k
                             ELSE Len(retrieved_items))

\* the loop over retrieved_k: dcg after the items from position i on
RECURSIVE DcgFrom(_, _, _)
DcgFrom(relevant_items, retrieved_k, i) ==
  IF i > Len(retrieved_k) THEN 0
  ELSE (IF retrieved_k[i] \in relevant_items THEN Discount(i) ELSE 0)
         + DcgFrom(relevant_items, retrieved_k, i + 1)

\* the loop over range(1, num_relevant + 1)
RECURSIVE IdcgUpTo(_)
IdcgUpTo(num_relevant) ==
  IF num_relevant <= 0 THEN 0
  ELSE Discount(num_relevant) + IdcgUpTo(num_relevant - 1)

\* mutant: an ideal ranking with as many relevant items as there are
NumRelevantUncapped(relevant_items, k) == Cardinality(relevant_items)

\* num_relevant = min(len(relevant_items), k)
NumRelevant(relevant_items, k) ==
  IF Cardinality(relevant_items) < k THEN Cardinality(relevant_items) ELSE k

Zero == [num |-> 0, den |-> 1]

CalculateNdcg(relevant_items, retrieved_items, k) ==
  LET dcg == DcgFrom(relevant_items, FirstK(retrieved_items, k), 1)
      idcg == IdcgUpTo(NumRelevant(relevant_items, k))
  IN  IF idcg = 0 THEN Zero ELSE [num |-> dcg, den |-> idcg]

\* mutant: a recall that counts the whole retrieved list
RetrievedSetUncut(retrieved_items, k) ==
  { retrieved_items[i] : i \in 1..Len(retrieved_items) }

\* set(retrieved_items[:k])
RetrievedSet(retrieved_items, k) ==
  LET retrieved_k == FirstK(retrieved_items, k)
  IN  { retrieved_k[i] : i \in 1..Len(retrieved_k) }

CalculateRecall(relevant_items, retrieved_items, k) ==
  IF relevant_items = {} THEN Zero
  ELSE [num |-> Cardinality(relevant_items
                              \cap RetrievedSet(retrieved_items, k)),
        den |-> Cardinality(relevant_items)]

\* ------------------------------------------------ identify_relevant_recipes
stop_words ==
  { "a", "an", "the", "me", "show", "give", "list", "what", "is", "with",
    "for" }

\* str.split(): the words between runs of spaces
RECURSIVE SplitFrom(_, _, _)
SplitFrom(s, i, word) ==
  IF i > Len(s) THEN (IF word = "" THEN << >> ELSE << word >>)
  ELSE IF Chr(s, i) = " "
  THEN (IF word = "" THEN << >> ELSE << word >>) \o SplitFrom(s, i + 1, "")
  ELSE SplitFrom(s, i + 1, word \o Chr(s, i))

StrSplit(s) == SplitFrom(s, 1, "")

Keywords(query) ==
  LET query_lower == StrLower(query)
      words == StrSplit(query_lower)
  IN  { words[i] : i \in 1..Len(words) } \ stop_words

\* recipe.get(field, default)
Get(recipe, field, default) ==
  IF field \in DOMAIN recipe THEN recipe[field] ELSE default

RecipeText(recipe) ==
  StrLower(Get(recipe, "title", "") \o " " \o Get(recipe, "tags", ""))

Matches(keywords, recipe) ==
  LET recipe_text == RecipeText(recipe)
  IN  Cardinality({ kw \in keywords : Contains(kw, recipe_text) })

\* mutant: a score has to exceed the threshold
IsRelevantStrictly(keywords, recipe, threshold) ==
  /\ Matches(keywords, recipe) > 0
  /\ Get(recipe, "relevance_score", 0) > threshold

IsRelevant(keywords, recipe, threshold) ==
  /\ Matches(keywords, recipe) > 0
  /\ Get(recipe, "relevance_score", 0) >= threshold

IdentifyRelevant(query, candidates, threshold) ==
  LET keywords == Keywords(query)
  IN  { candidates[i]["recipe_id"] :
          i \in { j \in 1..Len(candidates) :
                    IsRelevant(keywords, candidates[j], threshold) } }

\* ------------------------------------------ evaluate_retrieval_performance
\* the loop of line 135-165 from entry i on, then the summary and the file
\* of line 168-192; avg_ndcg and avg_recall are the means of ndcg_scores and
\* recall_scores, which the run keeps
RECURSIVE EvaluateFrom(_, _, _, _)
EvaluateFrom(test_results, i, k, run) ==
  IF i > Len(test_results)
  THEN [run EXCEPT !.saved = TRUE]
  ELSE IF \/ "query" \notin DOMAIN test_results[i]
          \/ "retrieved_recipes" \notin DOMAIN test_results[i]
          \/ \E j \in 1..Len(test_results[i]["retrieved_recipes"]) :
               "recipe_id" \notin DOMAIN test_results[i]["retrieved_recipes"][j]
  THEN \* result[key] or r['recipe_id'] raises KeyError
       [run EXCEPT !.raised = "KeyError", !.entry = i]
  ELSE
    LET query == test_results[i]["query"]
        retrieved_recipes == test_results[i]["retrieved_recipes"]
        retrieved_ids == [j \in 1..Len(retrieved_recipes) |->
                            retrieved_recipes[j]["recipe_id"]]
        relevant_ids ==
          IdentifyRelevant(query, retrieved_recipes, DefaultThreshold)
        ndcg == CalculateNdcg(relevant_ids, retrieved_ids, k)
        recall == CalculateRecall(relevant_ids, retrieved_ids, k)
    IN  IF Cardinality(relevant_ids) > 0
        THEN EvaluateFrom(test_results, i + 1, k,
               [run EXCEPT
                  !.ndcg_scores = Append(@, ndcg),
                  !.recall_scores = Append(@, recall),
                  !.query_metrics =
                     Append(@, [query |-> query, ndcg |-> ndcg,
                                recall |-> recall,
                                num_relevant |-> Cardinality(relevant_ids),
                                num_retrieved |-> Len(retrieved_ids)])])
        ELSE EvaluateFrom(test_results, i + 1, k, run)

\* ----------------------------------------------------------------- actions
EvalInit ==
  /\ metric_call = NoMetricCall
  /\ relevance_call = NoRelevanceCall
  /\ eval_run = NoEvalRun
  /\ RetrieverIdle /\ CallerIdle /\ PrepIdle /\ AssistantIdle

NoEvalCall == ~metric_call.made /\ ~relevance_call.made /\ ~eval_run.made

\* ndcg = calculate_ndcg_at_k(relevant_ids, retrieved_ids, k)
CalculateNdcgAtK(relevant_items, retrieved_items, k) ==
  /\ NoEvalCall
  /\ metric_call' =
       [made |-> TRUE, fn |-> "ndcg", relevant_items |-> relevant_items,
        retrieved_items |-> retrieved_items, k |-> k,
        score |-> CalculateNdcg(relevant_items, retrieved_items, k)]
  /\ UNCHANGED << relevance_call, eval_run >>
  /\ UNCHANGED beside_eval

\* recall = calculate_recall_at_k(relevant_ids, retrieved_ids, k)
CalculateRecallAtK(relevant_items, retrieved_items, k) ==
  /\ NoEvalCall
  /\ metric_call' =
       [made |-> TRUE, fn |-> "recall", relevant_items |-> relevant_items,
        retrieved_items |-> retrieved_items, k |-> k,
        score |-> CalculateRecall(relevant_items, retrieved_items, k)]
  /\ UNCHANGED << relevance_call, eval_run >>
  /\ UNCHANGED beside_eval

\* relevant_ids = identify_relevant_recipes(query, retrieved_recipes)
IdentifyRelevantRecipes(query, candidates, threshold) ==
  /\ NoEvalCall
  /\ relevance_call' =
       [made |-> TRUE, query |-> query, recipes |-> candidates,
        threshold |-> threshold,
        relevant |-> IdentifyRelevant(query, candidates, threshold)]
  /\ UNCHANGED << metric_call, eval_run >>
  /\ UNCHANGED beside_eval

\* evaluate_retrieval_performance(results_file, k) on a file that holds
\* results
EvaluateRetrievalPerformance(test_results, k) ==
  /\ NoEvalCall
  /\ eval_run' =
       EvaluateFrom(test_results, 1, k,
                    [NoEvalRun EXCEPT !.made = TRUE,
                                      !.results = test_results,
                                      !.k = k])
  /\ UNCHANGED << metric_call, relevance_call >>
  /\ UNCHANGED beside_eval

\* the caller goes on to the next call
NextEvaluation ==
  /\ ~NoEvalCall
  /\ metric_call' = NoMetricCall
  /\ relevance_call' = NoRelevanceCall
  /\ eval_run' = NoEvalRun
  /\ UNCHANGED beside_eval

EvalNext ==
  \/ \E relevant_items \in SUBSET ItemIds, retrieved_items \in RetrievedItems,
        k \in CutRange :
       CalculateNdcgAtK(relevant_items, retrieved_items, k)
  \/ \E relevant_items \in SUBSET ItemIds, retrieved_items \in RetrievedItems,
        k \in CutRange :
       CalculateRecallAtK(relevant_items, retrieved_items, k)
  \/ \E query \in EvalQueries, candidates \in Candidates :
       IdentifyRelevantRecipes(query, candidates, DefaultThreshold)
  \/ \E test_results \in ResultsFiles(MaxTests), k \in CutRange :
       EvaluateRetrievalPerformance(test_results, k)
  \/ NextEvaluation

EvalSpec == EvalInit /\ [][EvalNext]_all_vars

\* ------------------------------------------------------------------ claims
\* the words of the lowercased query, found by their positions: a word is a
\* stretch without a space that has a space or an end of the string on
\* either side
IsWordAt(s, i, j) ==
  /\ i <= j
  /\ \A n \in i..j : Chr(s, n) # " "
  /\ (i = 1 \/ Chr(s, i - 1) = " ")
  /\ (j = Len(s) \/ Chr(s, j + 1) = " ")

QueryWords(query) ==
  LET query_lower == StrLower(query)
  IN  { SubSeq(query_lower, p[1], p[2]) :
          p \in { q \in (1..Len(query_lower)) \X (1..Len(query_lower)) :
                    IsWordAt(query_lower, q[1], q[2]) } }

HasOneOf(words, recipe) ==
  LET text == RecipeText(recipe)
  IN  \E word \in words : Contains(word, text)

\* C16: identify_relevant_recipes returns exactly the ids of the candidates
\* with at least one query keyword (a query word that is no stop word) in
\* their title+tags text and a relevance_score of at least the threshold, a
\* missing score counting as 0; so it is a subset of the candidates' ids and
\* empty when every query word is a stop word.
C16_RelevantByKeywordAndThreshold ==
  relevance_call.made =>
    LET c == relevance_call
        ids == { c.recipes[i]["recipe_id"] : i \in 1..Len(c.recipes) }
        words == QueryWords(c.query)
        keywords == words \ stop_words
        scored(r) == IF "relevance_score" \in DOMAIN r
                     THEN r["relevance_score"] ELSE 0
    IN  /\ c.relevant =
             { c.recipes[i]["recipe_id"] :
                 i \in { j \in 1..Len(c.recipes) :
                           /\ HasOneOf(keywords, c.recipes[j])
                           /\ scored(c.recipes[j]) >= c.threshold } }
        /\ c.relevant \subseteq ids
        /\ words \subseteq stop_words => c.relevant = {}

C16_Witness ==
  /\ relevance_call.made
  /\ relevance_call.query = "what is a quick EGG dinner"
  /\ Len(relevance_call.recipes) = 2
  /\ relevance_call.recipes[1] =
       [recipe_id |-> 1, title |-> "eggplant bake", relevance_score |-> 15]
  /\ relevance_call.recipes[2] =
       [recipe_id |-> 2, title |-> "Chicken Soup", tags |-> "Quick Dinner",
        relevance_score |-> 14]
  /\ relevance_call.relevant = { 1 }

RECURSIVE SumDiscounts(_)
SumDiscounts(positions) ==
  IF positions = {} THEN 0
  ELSE LET i == CHOOSE x \in positions : TRUE
       IN  Discount(i) + SumDiscounts(positions \ {i})

\* the positions 1..k of the retrieved list that hold a relevant item
HitPositions ==
  { i \in 1..Min(metric_call.k, Len(metric_call.retrieved_items)) :
      metric_call.retrieved_items[i] \in metric_call.relevant_items }

\* the positions 1..min(|relevant|, k) of the ideal ranking
IdealPositions ==
  1..Min(Cardinality(metric_call.relevant_items), metric_call.k)

\* C17: NDCG uses binary relevance: DCG is the sum of the discounts
\* 1/log2(i+1) over the positions i in 1..k whose item is relevant, IDCG the
\* sum over the positions 1..min(|relevant|, k); for relevant {5,9},
\* retrieved [9,1,5], k = 3 these are {1,3} and {1,2} and NDCG is 0.919.
C17_NdcgBinaryRelevance ==
  (metric_call.made /\ metric_call.fn = "ndcg") =>
    /\ metric_call.score =
         IF SumDiscounts(IdealPositions) = 0 THEN Zero
         ELSE [num |-> SumDiscounts(HitPositions),
               den |-> SumDiscounts(IdealPositions)]
    /\ ( /\ metric_call.relevant_items = { 5, 9 }
         /\ metric_call.retrieved_items = << 9, 1, 5 >>
         /\ metric_call.k = 3 )
       => /\ HitPositions = { 1, 3 }
          /\ IdealPositions = { 1, 2 }
          /\ (metric_call.score.num * 1000) \div metric_call.score.den = 919

C17_Witness ==
  /\ metric_call.made
  /\ metric_call.fn = "ndcg"
  /\ metric_call.relevant_items = { 5, 9 }
  /\ metric_call.retrieved_items = << 9, 1, 5 >>
  /\ metric_call.k = 3
  /\ metric_call.score = [num |-> 15000, den |-> 16309]

\* C18: for every relevant set, every retrieved list (repeated ids included)
\* and every k >= 1, NDCG is between 0 and 1 inclusive, and is 0 when the
\* relevant set is empty.
C18_NdcgBetweenZeroAndOne ==
  (metric_call.made /\ metric_call.fn = "ndcg" /\ metric_call.k >= 1) =>
    /\ 0 <= metric_call.score.num
    /\ metric_call.score.num <= metric_call.score.den
    /\ metric_call.relevant_items = {} => metric_call.score.num = 0

\* the relevant ids that occur among the first k retrieved ids
RelevantFound ==
  { x \in metric_call.relevant_items :
      \E i \in 1..Min(metric_call.k, Len(metric_call.retrieved_items)) :
        metric_call.retrieved_items[i] = x }

\* recall is the number of relevant ids found among the first k divided by
\* the number of relevant ids, 0 for an empty relevant set, within 0..1
RecallIsFractionFound ==
  /\ metric_call.score =
       IF metric_call.relevant_items = {} THEN Zero
       ELSE [num |-> Cardinality(RelevantFound),
             den |-> Cardinality(metric_call.relevant_items)]
  /\ 0 <= metric_call.score.num
  /\ metric_call.score.num <= metric_call.score.den

\* C19 as stated: recall is that fraction, and it equals 1 exactly when
\* every relevant id occurs among the first k retrieved ids.
C19_RecallOneIffAllFound ==
  (metric_call.made /\ metric_call.fn = "recall") =>
    /\ RecallIsFractionFound
    /\ metric_call.score.num = metric_call.score.den
         <=> RelevantFound = metric_call.relevant_items

\* C19: recall is the fraction of the relevant ids found among the first k
\* retrieved ids (repeats counted once), 0 for an empty relevant set and
\* within 0..1; for a relevant set that is not empty it equals 1 exactly
\* when every relevant id occurs among the first k retrieved ids.
C19_RecallOneIffAllOfSomeFound ==
  (metric_call.made /\ metric_call.fn = "recall") =>
    /\ RecallIsFractionFound
    /\ metric_call.relevant_items # {} =>
         (metric_call.score.num = metric_call.score.den
            <=> RelevantFound = metric_call.relevant_items)

C19_Witness ==
  /\ metric_call.made
  /\ metric_call.fn = "recall"
  /\ metric_call.relevant_items = { 5, 9 }
  /\ metric_call.retrieved_items = << 9, 9, 5 >>
  /\ metric_call.k = 3
  /\ metric_call.score = [num |-> 2, den |-> 2]

\* the entries of the evaluated file that record a failed query
FailedEntries ==
  { i \in 1..Len(eval_run.results) : "error" \in DOMAIN eval_run.results[i] }

\* C25: evaluate_retrieval_performance processes every entry of a results
\* file written by run_all_tests and finishes with a summary without
\* raising, also when the file holds entries {query, error} of failed
\* queries; such entries are skipped, so there is at most one per-query
\* metric for each entry that is not of that kind.
C25_EvaluationFinishes ==
  eval_run.made =>
    /\ eval_run.raised = "none"
    /\ eval_run.saved
    /\ Len(eval_run.query_metrics)
         <= Len(eval_run.results) - Cardinality(FailedEntries)

====
